---- MODULE Spec2Model ----
(***************************************************************************)
(* Model of pkg/docker/dockerfile/reverse/reverse.go: the reconstruction   *)
(* of Dockerfile information from a container image history                *)
(* (DockerfileFromHistory) and its helper fixJSONArray.                    *)
(*                                                                         *)
(* Text is modelled by TLA+ strings, read one character at a time with     *)
(* SubSeq(s, i, i); the Go string functions the code calls are operators   *)
(* that compute what the library computes.                                 *)
(*                                                                         *)
(* Pointers are addresses into two heaps: frames (the *ImageInfo objects)  *)
(* and insts (the *InstructionInfo objects); ImageStack,                   *)
(* ImageInfo.Instructions and AllInstructions hold addresses, while        *)
(* fatImageDockerInstructions holds copies, as in the code.                *)
(*                                                                         *)
(* Not modelled: the rendering of times (Time, CreateTime) and of          *)
(* humanized sizes (SizeHuman, NewSizeHuman), and logging.                 *)
(***************************************************************************)
EXTENDS Integers, Sequences, FiniteSets, TLC

(***************************************************************************)
(* Go's strings package, as far as the code uses it.                       *)
(***************************************************************************)

\* s[i], 1-based, as a one-character string
At(s, i) == SubSeq(s, i, i)

\* s[i:] of Go with i 0-based: the text from the 1-based position i+1 on
From(s, i) == SubSeq(s, i + 1, Len(s))

HasPrefix(s, p) == Len(s) >= Len(p) /\ SubSeq(s, 1, Len(p)) = p

HasSuffix(s, p) == Len(s) >= Len(p) /\ SubSeq(s, Len(s) - Len(p) + 1, Len(s)) = p

TrimPrefix(s, p) == IF HasPrefix(s, p) THEN From(s, Len(p)) ELSE s

TrimSuffix(s, p) == IF HasSuffix(s, p) THEN SubSeq(s, 1, Len(s) - Len(p)) ELSE s

\* the least 1-based position at or after i where sub occurs in s, 0 if none
RECURSIVE IndexFrom(_, _, _)
IndexFrom(s, sub, i) ==
    IF i + Len(sub) - 1 > Len(s) THEN 0
    ELSE IF SubSeq(s, i, i + Len(sub) - 1) = sub THEN i
    ELSE IndexFrom(s, sub, i + 1)

Index(s, sub) == IndexFrom(s, sub, 1)

Contains(s, sub) == Index(s, sub) > 0

\* the white space of the texts modelled: what shlex splits on; TrimSpace also
\* trims \v, \f and the Unicode spaces, which no input of the model holds
IsSpace(c) == c \in {" ", "\t", "\n", "\r"}

RECURSIVE TrimLeft(_)
TrimLeft(s) ==
    IF Len(s) > 0 /\ IsSpace(At(s, 1)) THEN TrimLeft(From(s, 1)) ELSE s

RECURSIVE TrimRight(_)
TrimRight(s) ==
    IF Len(s) > 0 /\ IsSpace(At(s, Len(s)))
    THEN TrimRight(SubSeq(s, 1, Len(s) - 1))
    ELSE s

TrimSpace(s) == TrimRight(TrimLeft(s))

\* strings.Replace(s, old, new, -1) for a non-empty old
RECURSIVE Replace(_, _, _)
Replace(s, old, new) ==
    LET i == Index(s, old)
    IN  IF i = 0 THEN s
        ELSE SubSeq(s, 1, i - 1) \o new \o Replace(From(s, i + Len(old) - 1), old, new)

\* strings.Split(s, sep) for a non-empty sep
RECURSIVE Split(_, _)
Split(s, sep) ==
    LET i == Index(s, sep)
    IN  IF i = 0 THEN <<s>>
        ELSE <<SubSeq(s, 1, i - 1)>> \o Split(From(s, i + Len(sep) - 1), sep)

\* strings.SplitN(s, sep, 2) for a non-empty sep
SplitN2(s, sep) ==
    LET i == Index(s, sep)
    IN  IF i = 0 THEN <<s>>
        ELSE <<SubSeq(s, 1, i - 1), From(s, i + Len(sep) - 1)>>

RECURSIVE Join(_, _)
Join(parts, sep) ==
    IF Len(parts) = 0 THEN ""
    ELSE IF Len(parts) = 1 THEN parts[1]
    ELSE parts[1] \o sep \o Join(Tail(parts), sep)

(***************************************************************************)
(* strconv.Atoi: an optional sign followed by decimal digits.  The counts  *)
(* of the model are short, so the range error of Atoi cannot arise.        *)
(***************************************************************************)

Digits == <<"0", "1", "2", "3", "4", "5", "6", "7", "8", "9">>

IsDigit(c) == \E d \in 1..10 : Digits[d] = c

DigitVal(c) == (CHOOSE d \in 1..10 : Digits[d] = c) - 1

RECURSIVE AllDigits(_)
AllDigits(s) == Len(s) = 0 \/ (IsDigit(At(s, 1)) /\ AllDigits(From(s, 1)))

RECURSIVE DecimalVal(_, _)
DecimalVal(s, acc) ==
    IF Len(s) = 0 THEN acc
    ELSE DecimalVal(From(s, 1), 10 * acc + DigitVal(At(s, 1)))

\* [err, val]: err is TRUE where Atoi returns a non-nil error
Atoi(s) ==
    LET signed == Len(s) > 0 /\ At(s, 1) \in {"+", "-"}
        body   == IF signed THEN From(s, 1) ELSE s
    IN  IF Len(body) = 0 \/ ~AllDigits(body) THEN [err |-> TRUE, val |-> 0]
        ELSE [err |-> FALSE,
              val |-> IF signed /\ At(s, 1) = "-"
                      THEN 0 - DecimalVal(body, 0)
                      ELSE DecimalVal(body, 0)]

(***************************************************************************)
(* github.com/google/shlex Split: the tokenizer's state machine over the   *)
(* runes of the input.  Returns [err, toks]; err is TRUE where Split       *)
(* returns a non-nil error (EOF inside a quote or after an escape).        *)
(* Comment tokens (a # where a token would start, to the end of the line)  *)
(* are skipped by the lexer.                                               *)
(***************************************************************************)

RECURSIVE shlexScan(_, _, _, _, _)
shlexScan(s, i, state, value, toks) ==
    IF i > Len(s) THEN
        CASE state = "start"   -> [err |-> FALSE, toks |-> toks]
          [] state = "inWord"  -> [err |-> FALSE, toks |-> Append(toks, value)]
          [] state = "comment" -> [err |-> FALSE, toks |-> toks]
          [] OTHER             -> [err |-> TRUE, toks |-> toks]
    ELSE
        LET c == At(s, i)
        IN  CASE state = "start" ->
                    IF IsSpace(c) THEN shlexScan(s, i + 1, "start", "", toks)
                    ELSE IF c = "\"" THEN shlexScan(s, i + 1, "quotingEscaping", "", toks)
                    ELSE IF c = "'" THEN shlexScan(s, i + 1, "quoting", "", toks)
                    ELSE IF c = "\\" THEN shlexScan(s, i + 1, "escaping", "", toks)
                    ELSE IF c = "#" THEN shlexScan(s, i + 1, "comment", "", toks)
                    ELSE shlexScan(s, i + 1, "inWord", c, toks)
              [] state = "inWord" ->
                    IF IsSpace(c) THEN shlexScan(s, i + 1, "start", "", Append(toks, value))
                    ELSE IF c = "\"" THEN shlexScan(s, i + 1, "quotingEscaping", value, toks)
                    ELSE IF c = "'" THEN shlexScan(s, i + 1, "quoting", value, toks)
                    ELSE IF c = "\\" THEN shlexScan(s, i + 1, "escaping", value, toks)
                    ELSE shlexScan(s, i + 1, "inWord", value \o c, toks)
              [] state = "escaping" ->
                    shlexScan(s, i + 1, "inWord", value \o c, toks)
              [] state = "escapingQuoted" ->
                    shlexScan(s, i + 1, "quotingEscaping", value \o c, toks)
              [] state = "quotingEscaping" ->
                    IF c = "\"" THEN shlexScan(s, i + 1, "inWord", value, toks)
                    ELSE IF c = "\\" THEN shlexScan(s, i + 1, "escapingQuoted", value, toks)
                    ELSE shlexScan(s, i + 1, "quotingEscaping", value \o c, toks)
              [] state = "quoting" ->
                    IF c = "'" THEN shlexScan(s, i + 1, "inWord", value, toks)
                    ELSE shlexScan(s, i + 1, "quoting", value \o c, toks)
              [] state = "comment" ->
                    IF c = "\n" THEN shlexScan(s, i + 1, "start", "", toks)
                    ELSE shlexScan(s, i + 1, "comment", "", toks)

shlexSplit(s) == shlexScan(s, 1, "start", "", <<>>)

(***************************************************************************)
(* encoding/json: Encoder.Encode of a []string with SetEscapeHTML(false).  *)
(* Encode writes the JSON text followed by a newline.  Encoding a slice of *)
(* strings cannot fail.                                                    *)
(***************************************************************************)

jsonEscapeChar(c) ==
    CASE c = "\"" -> "\\\""
      [] c = "\\" -> "\\\\"
      [] c = "\n" -> "\\n"
      [] c = "\r" -> "\\r"
      [] c = "\t" -> "\\t"
      [] OTHER    -> c

RECURSIVE jsonEscape(_)
jsonEscape(s) ==
    IF Len(s) = 0 THEN ""
    ELSE jsonEscapeChar(At(s, 1)) \o jsonEscape(From(s, 1))

jsonString(s) == "\"" \o jsonEscape(s) \o "\""

jsonArray(toks) ==
    "[" \o Join([k \in 1..Len(toks) |-> jsonString(toks[k])], ",") \o "]"

jsonEncode(toks) == jsonArray(toks) \o "\n"

(***************************************************************************)
(* The constants of reverse.go.                                            *)
(***************************************************************************)

defaultRunInstShell == "/bin/sh"

notRunInstPrefix == "/bin/sh -c #(nop) "

runInstShellPrefix == "/bin/sh -c "

runInstArgsPrefix == "|"

instMaintainerPrefix == "MAINTAINER "

\* the sentinel id of a layer that is not materialized locally
missingID == "<missing>"

(***************************************************************************)
(* fixJSONArray.  The function indexes data[0] and slices                  *)
(* data[1 : len(data)-1] without checking the length: it panics on the     *)
(* empty string and on the one-character string "[".                       *)
(***************************************************************************)

fixJSONArrayPanics(in) ==
    Len(in) = 0 \/ (At(in, 1) = "[" /\ Len(in) < 2)

fixJSONArray(in) ==
    LET data     == IF At(in, 1) = "[" THEN SubSeq(in, 2, Len(in) - 1) ELSE in
        outArray == shlexSplit(data)
    IN  IF outArray.err THEN in ELSE jsonEncode(outArray.toks)

(***************************************************************************)
(* The classification of one raw history line (the switch of               *)
(* DockerfileFromHistory).  Each step returns                              *)
(* [panics, inst, isExecForm, processed].                                  *)
(***************************************************************************)

\* RUN instruction in shell form: the raw line minus "/bin/sh -c "
shellFormRun(rawLine) ==
    LET runData == TrimPrefix(rawLine, runInstShellPrefix)
        parts   == Split(runData, "&&")
        fmt     == [i \in 1..Len(parts) |->
                       (IF i # 1 THEN "\t" ELSE "") \o TrimSpace(parts[i])]
    IN  IF Contains(runData, "&&")
        THEN "RUN " \o Join(fmt, " && \\\n")
        ELSE "RUN " \o runData

\* the instruction recovered from the tokens left after the build args
runFromParts(rawInstParts) ==
    IF Len(rawInstParts) > 2
       /\ rawInstParts[1] = defaultRunInstShell
       /\ rawInstParts[2] = "-c"
    THEN [inst       |-> TrimSpace("RUN " \o Join(SubSeq(rawInstParts, 3, Len(rawInstParts)), " ")),
          isExecForm |-> FALSE]
    ELSE [inst       |-> "RUN " \o jsonEncode(rawInstParts),
          isExecForm |-> TRUE]

\* RUN with ARGs: |N arg1 ... argN rest
runWithArgs(rawInst) ==
    LET unprocessed == [panics |-> FALSE, processed |-> FALSE, inst |-> "", isExecForm |-> FALSE]
        parts       == SplitN2(rawInst, " ")
        withArgs    == TrimSpace(parts[2])
        argNum      == Atoi(From(parts[1], 1))
        withArgsArray == shlexSplit(withArgs)
    IN  IF ~HasPrefix(rawInst, runInstArgsPrefix) THEN unprocessed
        ELSE IF Len(parts) # 2 THEN unprocessed
        ELSE IF argNum.err THEN unprocessed
        ELSE IF withArgsArray.err THEN unprocessed
        ELSE IF ~(Len(withArgsArray.toks) > argNum.val) THEN unprocessed
        ELSE IF argNum.val < 0
             THEN \* withArgsArray[argNum:] with a negative bound
                  [panics |-> TRUE, processed |-> FALSE, inst |-> "", isExecForm |-> FALSE]
        ELSE LET r == runFromParts(SubSeq(withArgsArray.toks, argNum.val + 1,
                                          Len(withArgsArray.toks)))
             IN  [panics |-> FALSE, processed |-> TRUE,
                  inst |-> r.inst, isExecForm |-> r.isExecForm]

\* default to RUN instruction in exec form
defaultRun(rawInst) ==
    LET outArray == shlexSplit(rawInst)
    IN  IF outArray.err THEN "RUN " \o rawInst
        ELSE "RUN " \o jsonEncode(outArray.toks)

classifyLine(rawLine) ==
    IF Len(rawLine) = 0
    THEN [panics |-> FALSE, inst |-> "", isExecForm |-> FALSE]
    ELSE IF HasPrefix(rawLine, notRunInstPrefix)
    THEN [panics |-> FALSE, inst |-> TrimPrefix(rawLine, notRunInstPrefix), isExecForm |-> FALSE]
    ELSE IF HasPrefix(rawLine, runInstShellPrefix)
    THEN [panics |-> FALSE, inst |-> shellFormRun(rawLine), isExecForm |-> FALSE]
    ELSE LET a == runWithArgs(rawLine)
         IN  IF a.panics THEN [panics |-> TRUE, inst |-> "", isExecForm |-> FALSE]
             ELSE IF a.processed
             THEN [panics |-> FALSE, inst |-> a.inst, isExecForm |-> a.isExecForm]
             ELSE [panics |-> FALSE, inst |-> defaultRun(rawLine), isExecForm |-> TRUE]

(***************************************************************************)
(* The ENTRYPOINT and CMD rewriting of the trimmed instruction.            *)
(***************************************************************************)

entrypointShellFormPrefix == "ENTRYPOINT [\"/bin/sh\" \"-c\" \""

cmdShellFormPrefix == "CMD [\"/bin/sh\" \"-c\" \""

\* [panics, cleanInst, isExecForm]
normalizeEntrypoint(c) ==
    LET replaced == Replace(Replace(c.cleanInst, "&{[", "["), "]}", "]")
        instData == TrimPrefix(replaced, "ENTRYPOINT ")
    IN  IF c.panics \/ ~HasPrefix(c.cleanInst, "ENTRYPOINT ") THEN c
        ELSE IF HasPrefix(replaced, entrypointShellFormPrefix)
        THEN [c EXCEPT !.cleanInst =
                  "ENTRYPOINT " \o TrimSuffix(TrimPrefix(replaced, entrypointShellFormPrefix), "\"]")]
        ELSE IF fixJSONArrayPanics(instData)
        THEN [c EXCEPT !.panics = TRUE]
        ELSE [c EXCEPT !.isExecForm = TRUE,
                       !.cleanInst = "ENTRYPOINT " \o fixJSONArray(instData)]

normalizeCmd(c) ==
    LET instData == TrimPrefix(c.cleanInst, "CMD ")
    IN  IF c.panics \/ ~HasPrefix(c.cleanInst, "CMD ") THEN c
        ELSE IF HasPrefix(c.cleanInst, cmdShellFormPrefix)
        THEN [c EXCEPT !.cleanInst =
                  "CMD " \o TrimSuffix(TrimPrefix(c.cleanInst, cmdShellFormPrefix), "\"]")]
        ELSE IF fixJSONArrayPanics(instData)
        THEN [c EXCEPT !.panics = TRUE]
        ELSE [c EXCEPT !.isExecForm = TRUE,
                       !.cleanInst = "CMD " \o fixJSONArray(instData)]

\* the raw line classified, trimmed and rewritten: [panics, cleanInst, isExecForm]
cleanInstOf(rawLine) ==
    LET k == classifyLine(rawLine)
    IN  normalizeCmd(normalizeEntrypoint(
            [panics |-> k.panics, cleanInst |-> TrimSpace(k.inst), isExecForm |-> k.isExecForm]))

(***************************************************************************)
(* The InstructionInfo built for one history entry, before the entry is    *)
(* attributed to an image.                                                 *)
(***************************************************************************)

\* the length after which CommandSnippet is cut
snippetLen == 44

RECURSIVE systemCommandsOf(_)
systemCommandsOf(cmdParts) ==
    IF Len(cmdParts) = 0 THEN <<>>
    ELSE <<Replace(Replace(TrimSpace(cmdParts[1]), "\t", ""), "\n", "")>>
         \o systemCommandsOf(Tail(cmdParts))

runSystemCommands(operand) ==
    LET cmds == Replace(operand, "\\", "")
    IN  systemCommandsOf(IF Contains(cmds, "&&") THEN Split(cmds, "&&") ELSE Split(cmds, ";"))

\* mutant: the source type is recorded, the command is not rewritten
addCopySourceTypeOnly(info) ==
    LET pparts == SplitN2(info.Params, ":")
    IN  IF info.Type \notin {"ADD", "COPY"} \/ Len(pparts) # 2 THEN info
        ELSE [info EXCEPT !.SourceType = pparts[1]]

\* ADD and COPY: <src-type>:<name> in <dest>
addCopyRewrite(info) ==
    LET pparts == SplitN2(info.Params, ":")
        tparts == SplitN2(pparts[2], " in ")
    IN  IF info.Type \notin {"ADD", "COPY"} \/ Len(pparts) # 2 THEN info
        ELSE IF Len(tparts) # 2 THEN [info EXCEPT !.SourceType = pparts[1]]
        ELSE [info EXCEPT !.SourceType = pparts[1],
                          !.Target     = tparts[2],
                          !.CommandAll = info.Type \o " " \o pparts[1] \o ":" \o tparts[1]
                                                   \o " " \o tparts[2]]

commandSnippetOf(commandAll) ==
    IF Len(commandAll) > snippetLen
    THEN SubSeq(commandAll, 1, snippetLen) \o "..."
    ELSE commandAll

instructionInfoOf(entry, c) ==
    LET instParts == SplitN2(c.cleanInst, " ")
        type0     == IF Len(instParts) = 2 THEN instParts[1] ELSE ""
        type      == IF c.cleanInst = "" THEN "NONE" ELSE type0
        base      == [Type                |-> type,
                      IsLastInstruction   |-> FALSE,
                      IsNop               |-> Contains(entry.CreatedBy, "#(nop)"),
                      IsExecForm          |-> c.isExecForm,
                      LocalImageExists    |-> entry.ID # missingID,
                      IntermediateImageID |-> IF entry.ID # missingID THEN entry.ID ELSE "",
                      Size                |-> entry.Size,
                      Params              |-> IF type # "RUN" /\ Len(instParts) = 2
                                              THEN instParts[2] ELSE "",
                      CommandSnippet      |-> "",
                      CommandAll          |-> IF c.cleanInst = "" THEN "#no instruction info"
                                              ELSE c.cleanInst,
                      SystemCommands      |-> IF type = "RUN" THEN runSystemCommands(instParts[2])
                                              ELSE IF type = "WORKDIR"
                                              THEN <<"mkdir -p " \o instParts[2]>>
                                              ELSE <<>>,
                      Comment             |-> entry.Comment,
                      instPosition        |-> "",
                      imageFullName       |-> "",
                      RawTags             |-> entry.Tags,
                      Target              |-> "",
                      SourceType          |-> ""]
        rewritten == addCopyRewrite(base)
    IN  [rewritten EXCEPT !.CommandSnippet = commandSnippetOf(rewritten.CommandAll)]

\* mutant: the whole instruction is taken for its operand
operandOfWholeInstruction(cleanInst, prefix) ==
    IF HasPrefix(cleanInst, prefix) THEN <<cleanInst>> ELSE <<>>

\* the operand of a MAINTAINER, USER or EXPOSE instruction: <<operand>>, or <<>>
operandOf(cleanInst, prefix) ==
    LET parts == SplitN2(cleanInst, " ")
    IN  IF HasPrefix(cleanInst, prefix) /\ Len(parts) = 2
        THEN <<TrimSpace(parts[2])>>
        ELSE <<>>

(***************************************************************************)
(* The attribution of instructions to images.                              *)
(***************************************************************************)

\* mutant: the loop starts one entry too late
imageLayerStartSkipsOldest(history) == Len(history) - 2

\* the index the loop starts at: the oldest entry
imageLayerStart(history) == Len(history) - 1

\* mutant: only a tagged entry ends an image
isLastInImageTagged(idx, entry) == Len(entry.Tags) > 0

\* the entry ends an image: the newest entry, or a tagged one
isLastInImage(idx, entry) == idx = 0 \/ Len(entry.Tags) > 0

\* mutant: the oldest entry is first even when it ends an image
instPositionFirstWins(idx, layerStart, entry) ==
    IF idx = layerStart THEN "first"
    ELSE IF isLastInImage(idx, entry) THEN "last"
    ELSE "intermediate"

instPositionOf(idx, layerStart, entry) ==
    IF isLastInImage(idx, entry) THEN "last"
    ELSE IF idx = layerStart THEN "first"
    ELSE "intermediate"

\* mutant: a new image forgets the image before it
newImageInfoNoBase(prevID) ==
    [IsTopImage   |-> FALSE,
     ID           |-> "",
     FullName     |-> "",
     RepoName     |-> "",
     VersionTag   |-> "",
     RawTags      |-> <<>>,
     NewSize      |-> 0,
     BaseImageID  |-> "",
     Instructions |-> <<>>]

newImageInfo(prevID) ==
    [IsTopImage   |-> FALSE,
     ID           |-> "",
     FullName     |-> "",
     RepoName     |-> "",
     VersionTag   |-> "",
     RawTags      |-> <<>>,
     NewSize      |-> 0,
     BaseImageID  |-> prevID,
     Instructions |-> <<>>]

\* mutant: the size is assigned, not added
addSizeOverwrite(newSize, size) == size

\* currentImageInfo.NewSize += size
addSize(newSize, size) == newSize + size

\* the image closed by a last entry
closeImageInfo(image, entry) ==
    LET tagInfo == Split(entry.Tags[1], ":")
        tagged  == Len(entry.Tags) > 0
    IN  [image EXCEPT !.ID         = entry.ID,
                      !.RawTags    = entry.Tags,
                      !.FullName   = IF tagged THEN entry.Tags[1] ELSE @,
                      !.RepoName   = IF tagged /\ Len(tagInfo) > 1 THEN tagInfo[1] ELSE @,
                      !.VersionTag = IF tagged /\ Len(tagInfo) > 1 THEN tagInfo[2] ELSE @]

\* mutant: the last instruction keeps the id of its layer
closeInstructionKeepsID(info, image, entry) ==
    LET named == [info EXCEPT !.imageFullName =
                      IF Len(entry.Tags) > 0 THEN entry.Tags[1] ELSE @]
    IN  IF info.IntermediateImageID = image.ID
        THEN [named EXCEPT !.IsLastInstruction = TRUE]
        ELSE named

\* the last instruction of an image, once the image has its id
closeInstruction(info, image, entry) ==
    LET named == [info EXCEPT !.imageFullName =
                      IF Len(entry.Tags) > 0 THEN entry.Tags[1] ELSE @]
    IN  IF info.IntermediateImageID = image.ID
        THEN [named EXCEPT !.IntermediateImageID = "", !.IsLastInstruction = TRUE]
        ELSE named

\* the lines emitted for the instruction at 1-based position k of n
linesOf(info, k, n) ==
    (IF info.instPosition = "first" THEN <<"# new image">> ELSE <<>>)
    \o <<info.CommandAll>>
    \o (IF info.instPosition = "last"
        THEN <<"# end of image: " \o info.imageFullName
                 \o " (id: " \o info.IntermediateImageID
                 \o " tags: " \o Join(info.RawTags, ",") \o ")",
               "">>
             \o (IF k - 1 < n - 1 THEN <<"# new image">> ELSE <<>>)
        ELSE <<>>)
    \o (IF info.Comment # "" THEN <<"# " \o info.Comment>> ELSE <<>>)

(***************************************************************************)
(* The state of one call of DockerfileFromHistory, and of repeated calls   *)
(* of fixJSONArray.                                                        *)
(***************************************************************************)

VARIABLES
    imageHistory,               \* the daemon's answer, newest entry first
    pc,                         \* "loop", "emit", "done" or "panic"
    idx,                        \* the loop index over imageHistory (0-based)
    startNewImage,
    currentImageInfo,           \* address in frames, 0 for nil
    prevImageID,
    frames,                     \* heap of the ImageInfo objects allocated
    insts,                      \* heap of the InstructionInfo objects allocated
    fatImageDockerInstructions, \* copies of the instructions, in loop order
    out,                        \* the Dockerfile being built
    emitIdx,                    \* the index of the emitting loop (0-based)
    fixIn,                      \* the argument of the first fixJSONArray call
    fixOut,                     \* the results of the successive calls
    genArgs,                    \* the arguments of a GenerateFromInfo call
    genPc,                      \* "idle", "call", "ok" or "error"
    genFile                     \* the Dockerfile written, "" before the call

vars == <<imageHistory, pc, idx, startNewImage, currentImageInfo, prevImageID,
          frames, insts, fatImageDockerInstructions, out, emitIdx, fixIn, fixOut,
          genArgs, genPc, genFile>>

genVars == <<genArgs, genPc, genFile>>

reducerVars == <<imageHistory, pc, idx, startNewImage, currentImageInfo, prevImageID,
                 frames, insts, fatImageDockerInstructions, out, emitIdx>>

(***************************************************************************)
(* The inputs.                                                             *)
(***************************************************************************)

\* the longest history whose entries vary in id, tags and size
MaxLayers == 3

\* the longest token list of a fixJSONArray argument
MaxFixTokens == 2

LayerIDs == {missingID, "sha256:a1", "sha256:b2"}

LayerTags == {<<>>, <<"img:1">>}

LayerSizes == {0, 3}

\* entries that vary in what decides the image stack
LayerEntries ==
    [ID : LayerIDs, Tags : LayerTags, Size : LayerSizes,
     CreatedBy : {"/bin/sh -c #(nop) CMD [\"sh\"]"}, Comment : {""}]

\* raw lines of every shape the classification distinguishes
RawLines ==
    {"",
     "/bin/sh -c #(nop) CMD [\"sh\"]",
     "/bin/sh -c #(nop)  ENTRYPOINT &{[\"/app\" \"--flag\"]}",
     "/bin/sh -c #(nop) CMD [\"/bin/sh\" \"-c\" \"echo hi\"]",
     "/bin/sh -c #(nop) ENTRYPOINT [\"/bin/sh\" \"-c\" \"run.sh\"]",
     "/bin/sh -c #(nop) CMD [",
     "/bin/sh -c #(nop) ENTRYPOINT [",
     "/bin/sh -c #(nop) CMD [\"sh",
     "/bin/sh -c #(nop) ADD file:abc123 in /usr/bin/app ",
     "/bin/sh -c #(nop) COPY dir:9f /etc",
     "/bin/sh -c #(nop) USER app",
     "/bin/sh -c #(nop) EXPOSE 80/tcp",
     "/bin/sh -c #(nop) MAINTAINER me",
     "/bin/sh -c #(nop) WORKDIR /srv",
     "/bin/sh -c #(nop) ONBUILD RUN make",
     "/bin/sh -c apt-get update && apt-get install -y curl",
     "/bin/sh -c echo hi",
     "/bin/sh -c ",
     "|2 FOO=bar BAZ=qux /bin/sh -c echo hi",
     "|1 X=1 python -c 'print(1)'",
     "|1 X=1 /bin/sh -c",
     "|0 /bin/sh -c ''",
     "|-1 x",
     "|x y",
     "|3 a b",
     "|1 a 'b",
     "ls -l",
     "ls 'x",
     "/bin/sh -c #(nop) FOO bar",
     "/bin/sh -c #(nop) FOO",
     "/bin/sh -c #(nop) CMD &{[\"/bin/sh\" \"-c\" \"echo hi\"]}",
     "/bin/sh -c #(nop) ENTRYPOINT &{[\"/bin/sh\" \"-c\" \"echo hi\"]}",
     "/bin/sh -c #(nop) CMD &{[\"sh\"]}",
     "/bin/sh -c #(nop) ENTRYPOINT &{[\"sh\"]}",
     "/bin/sh -c #(nop) COPY multi:x in /a in /b",
     "/bin/sh -c #(nop) ADD nocolon in /x",
     "/bin/sh -c #(nop) COPY dir in /a:b",
     "/bin/sh -c a&&b ; c",
     "/bin/sh -c make; make install",
     "|+1 X=1 ls",
     "|3"}

TextEntries ==
    [ID : {"sha256:a1"}, Tags : {<<"img:1">>}, Size : {3},
     CreatedBy : RawLines, Comment : {"note"}]

RECURSIVE SeqsUpTo(_, _)
SeqsUpTo(S, n) ==
    IF n = 0 THEN {<<>>}
    ELSE LET shorter == SeqsUpTo(S, n - 1)
         IN  shorter \cup {Append(q, e) : q \in {r \in shorter : Len(r) = n - 1}, e \in S}

\* entries that vary in the user they set
UserEntries ==
    [ID : {missingID}, Tags : {<<>>}, Size : {0},
     CreatedBy : {"/bin/sh -c #(nop) USER app",
                  "/bin/sh -c #(nop) USER root",
                  "/bin/sh -c #(nop)  USER  web ",
                  "/bin/sh -c echo hi"},
     Comment : {""}]

Histories ==
    SeqsUpTo(LayerEntries, MaxLayers)
    \cup {<<e>> : e \in TextEntries}
    \cup SeqsUpTo(UserEntries, MaxLayers)

FixTokens == {"sh", "-c", "/app"}

\* arguments of fixJSONArray: JSON arrays, results of Encode (with the final
\* newline), the daemon's rendering of an array, and the unterminated "["
FixInputs ==
    UNION {{jsonArray(t), jsonEncode(t), "[" \o Join(t, " ") \o "]"} :
              t \in SeqsUpTo(FixTokens, MaxFixTokens)}
    \cup {"["}

emptyDockerfile ==
    [Lines           |-> <<>>,
     Maintainers     |-> <<>>,
     AllUsers        |-> <<>>,
     ExeUser         |-> "",
     ExposedPorts    |-> <<>>,
     ImageStack      |-> <<>>,
     AllInstructions |-> <<>>,
     HasOnbuild      |-> FALSE]

\* no call of GenerateFromInfo
noGenArgs ==
    [volumes |-> {}, workingDir |-> "", env |-> <<>>, labels |-> {}, user |-> "",
     exposedPorts |-> {}, entrypoint |-> <<>>, cmd |-> <<>>,
     hasData |-> FALSE, tarData |-> FALSE]

InitGenIdle ==
    /\ genArgs = noGenArgs
    /\ genPc = "idle"
    /\ genFile = ""

InitReducer(history) ==
    /\ imageHistory = history
    /\ pc = "loop"
    /\ idx = imageLayerStart(history)
    /\ startNewImage = TRUE
    /\ currentImageInfo = 0
    /\ prevImageID = ""
    /\ frames = <<>>
    /\ insts = <<>>
    /\ fatImageDockerInstructions = <<>>
    /\ out = emptyDockerfile
    /\ emitIdx = 0

Init ==
    /\ \E history \in Histories : InitReducer(history)
    /\ fixIn = ""
    /\ fixOut = <<>>
    /\ InitGenIdle

(***************************************************************************)
(* One iteration of the loop over the history.                             *)
(***************************************************************************)

ProcessEntry ==
    /\ pc = "loop"
    /\ idx >= 0
    /\ LET entry == imageHistory[idx + 1]
           c     == cleanInstOf(entry.CreatedBy)
           info0 == instructionInfoOf(entry, c)
           last  == isLastInImage(idx, entry)
           \* the image the entry belongs to: a new one, or the current one
           cur   == IF startNewImage THEN Len(frames) + 1 ELSE currentImageInfo
           image0 == IF startNewImage THEN newImageInfo(prevImageID) ELSE frames[cur]
           addr  == Len(insts) + 1
           image1 == [image0 EXCEPT !.NewSize = addSize(@, entry.Size),
                                    !.Instructions = Append(@, addr)]
           image2 == IF last THEN closeImageInfo(image1, entry) ELSE image1
           info1 == IF last THEN closeInstruction(info0, image2, entry) ELSE info0
           info2 == [info1 EXCEPT !.instPosition =
                         instPositionOf(idx, imageLayerStart(imageHistory), entry)]
       IN  /\ ~c.panics
           /\ frames' = IF startNewImage THEN Append(frames, image2)
                        ELSE [frames EXCEPT ![cur] = image2]
           /\ currentImageInfo' = cur
           /\ insts' = Append(insts, info2)
           /\ fatImageDockerInstructions' = Append(fatImageDockerInstructions, info2)
           /\ prevImageID' = IF last THEN image2.ID ELSE prevImageID
           /\ startNewImage' = last
           /\ out' = [out EXCEPT
                  !.Maintainers     = @ \o operandOf(c.cleanInst, instMaintainerPrefix),
                  !.AllUsers        = @ \o operandOf(c.cleanInst, "USER "),
                  !.ExeUser         = IF operandOf(c.cleanInst, "USER ") # <<>>
                                      THEN operandOf(c.cleanInst, "USER ")[1] ELSE @,
                  !.ExposedPorts    = @ \o operandOf(c.cleanInst, "EXPOSE "),
                  !.HasOnbuild      = @ \/ info0.Type = "ONBUILD",
                  !.AllInstructions = Append(@, addr),
                  !.ImageStack      = IF last THEN Append(@, cur) ELSE @]
    /\ idx' = idx - 1
    /\ UNCHANGED <<imageHistory, pc, emitIdx, fixIn, fixOut, genVars>>

\* a runtime panic inside the iteration: the call never returns
PanicEntry ==
    /\ pc = "loop"
    /\ idx >= 0
    /\ cleanInstOf(imageHistory[idx + 1].CreatedBy).panics
    /\ pc' = "panic"
    /\ UNCHANGED <<imageHistory, idx, startNewImage, currentImageInfo, prevImageID,
                   frames, insts, fatImageDockerInstructions, out, emitIdx, fixIn, fixOut, genVars>>

\* the loop is over: mark the top image, start the lines with FROM scratch
MarkTopImage ==
    /\ pc = "loop"
    /\ idx < 0
    /\ frames' = IF currentImageInfo # 0
                 THEN [frames EXCEPT ![currentImageInfo].IsTopImage = TRUE]
                 ELSE frames
    /\ out' = [out EXCEPT !.Lines = Append(@, "FROM scratch")]
    /\ pc' = "emit"
    /\ UNCHANGED <<imageHistory, idx, startNewImage, currentImageInfo, prevImageID,
                   insts, fatImageDockerInstructions, emitIdx, fixIn, fixOut, genVars>>

\* one iteration of the loop that emits the lines
EmitInstruction ==
    /\ pc = "emit"
    /\ emitIdx < Len(fatImageDockerInstructions)
    /\ out' = [out EXCEPT !.Lines =
                   @ \o linesOf(fatImageDockerInstructions[emitIdx + 1], emitIdx + 1,
                                Len(fatImageDockerInstructions))]
    /\ emitIdx' = emitIdx + 1
    /\ UNCHANGED <<imageHistory, pc, idx, startNewImage, currentImageInfo, prevImageID,
                   frames, insts, fatImageDockerInstructions, fixIn, fixOut, genVars>>

Return ==
    /\ pc = "emit"
    /\ emitIdx = Len(fatImageDockerInstructions)
    /\ pc' = "done"
    /\ UNCHANGED <<imageHistory, idx, startNewImage, currentImageInfo, prevImageID,
                   frames, insts, fatImageDockerInstructions, out, emitIdx, fixIn, fixOut, genVars>>

Next == ProcessEntry \/ PanicEntry \/ MarkTopImage \/ EmitInstruction \/ Return

Spec == Init /\ [][Next]_vars

(***************************************************************************)
(* fixJSONArray applied again and again to its own result.                 *)
(***************************************************************************)

\* the number of successive calls
MaxFixCalls == 2

InitFix ==
    /\ InitReducer(<<>>)
    /\ fixIn \in FixInputs
    /\ fixOut = <<>>
    /\ InitGenIdle

fixArg == IF Len(fixOut) = 0 THEN fixIn ELSE fixOut[Len(fixOut)]

ApplyFix ==
    /\ Len(fixOut) < MaxFixCalls
    /\ fixOut # <<"panic">>
    /\ ~fixJSONArrayPanics(fixArg)
    /\ fixOut' = Append(fixOut, fixJSONArray(fixArg))
    /\ UNCHANGED <<reducerVars, fixIn, genVars>>

PanicFix ==
    /\ Len(fixOut) = 0
    /\ fixJSONArrayPanics(fixArg)
    /\ fixOut' = <<"panic">>
    /\ UNCHANGED <<reducerVars, fixIn, genVars>>

NextFix == ApplyFix \/ PanicFix

SpecFix == InitFix /\ [][NextFix]_vars

(***************************************************************************)
(* GenerateFromInfo: the Dockerfile of the minified image.                 *)
(***************************************************************************)

\* consts.ContainerLabelName and version.Current(): the name and the value
\* of the version label
ContainerLabelName == "<ContainerLabelName>"

currentVersion == "<Version>"

\* strconv.Quote on the characters the inputs use
quoteEscapeChar(c) ==
    CASE c = "\"" -> "\\\""
      [] c = "\\" -> "\\\\"
      [] c = "\n" -> "\\n"
      [] c = "\t" -> "\\t"
      [] OTHER -> c

RECURSIVE quoteEscape(_)
quoteEscape(s) ==
    IF Len(s) = 0 THEN ""
    ELSE quoteEscapeChar(SubSeq(s, 1, 1)) \o quoteEscape(Tail(s))

strconvQuote(s) == "\"" \o quoteEscape(s) \o "\""

RECURSIVE quoteAll(_)
quoteAll(list) ==
    IF Len(list) = 0 THEN <<>>
    ELSE <<strconvQuote(list[1])>> \o quoteAll(Tail(list))

\* the orders in which a range loop may visit the keys of a map
mapOrders(keys) ==
    {order \in [1..Cardinality(keys) -> keys] :
        \A k \in keys : \E i \in 1..Cardinality(keys) : order[i] = k}

\* one LABEL line per label, the value JSON-encoded by an Encoder, which ends
\* its output with a newline
RECURSIVE labelLines(_)
labelLines(order) ==
    IF Len(order) = 0 THEN ""
    ELSE "LABEL " \o order[1][1] \o "=" \o jsonString(order[1][2]) \o "\n" \o "\n"
         \o labelLines(Tail(order))

labelGroup(order) ==
    IF Len(order) > 0 THEN labelLines(order) \o "\n" ELSE ""

\* one ENV line per entry that strings.Split on "=" cuts in more than one part
envLine(envInfo) ==
    LET envParts == Split(envInfo, "=")
    IN  IF Len(envParts) > 1
        THEN "ENV " \o envParts[1] \o " \"" \o envParts[2] \o "\"" \o "\n"
        ELSE ""

RECURSIVE envLines(_)
envLines(env) ==
    IF Len(env) = 0 THEN "" ELSE envLine(env[1]) \o envLines(Tail(env))

envGroup(env) ==
    IF Len(env) > 0 THEN envLines(env) \o "\n" ELSE ""

volumeGroup(order) ==
    IF Len(order) > 0 THEN "VOLUME [" \o Join(quoteAll(order), ",") \o "]" \o "\n" ELSE ""

dataGroup(hasData, tarData) ==
    IF hasData THEN (IF tarData THEN "ADD files.tar /\n" ELSE "COPY files /\n") ELSE ""

workdirGroup(workingDir) ==
    IF workingDir # "" THEN "WORKDIR " \o workingDir \o "\n" ELSE ""

userGroup(user) ==
    IF user # "" THEN "USER " \o user \o "\n" ELSE ""

RECURSIVE exposeGroup(_)
exposeGroup(order) ==
    IF Len(order) = 0 THEN ""
    ELSE "EXPOSE " \o order[1] \o "\n" \o exposeGroup(Tail(order))

execGroup(keyword, list) ==
    IF Len(list) > 0 THEN keyword \o " [" \o Join(quoteAll(list), ",") \o "]" \o "\n" ELSE ""

\* the bytes of dfData, for one order of visit of each map
dfDataOf(args, labelOrder, volumeOrder, portOrder) ==
    "FROM scratch\n"
    \o "LABEL " \o ContainerLabelName \o "=\"" \o currentVersion \o "\"\n"
    \o labelGroup(labelOrder)
    \o envGroup(args.env)
    \o volumeGroup(volumeOrder)
    \o dataGroup(args.hasData, args.tarData)
    \o workdirGroup(args.workingDir)
    \o userGroup(args.user)
    \o exposeGroup(portOrder)
    \o execGroup("ENTRYPOINT", args.entrypoint)
    \o execGroup("CMD", args.cmd)

\* the longest env list
MaxEnv == 2

EnvEntries == {"A=1", "B=x=y", "NOEQ", "C="}

GenArgs ==
    [volumes : {{}, {"/data", "/var/log"}},
     workingDir : {"", "/srv"},
     env : SeqsUpTo(EnvEntries, MaxEnv),
     labels : {{}, {<<"maintainer", "a \"b\"">>, <<"tier", "web">>}},
     user : {"", "app"},
     exposedPorts : {{}, {"80/tcp", "443/tcp"}},
     entrypoint : {<<>>, <<"/app", "--name=x y">>},
     cmd : {<<>>, <<"sh">>},
     hasData : BOOLEAN,
     tarData : BOOLEAN]

InitGen ==
    /\ InitReducer(<<>>)
    /\ fixIn = ""
    /\ fixOut = <<>>
    /\ genArgs \in GenArgs
    /\ genPc = "call"
    /\ genFile = ""

\* the call builds dfData and ioutil.WriteFile stores it
GenerateFromInfo ==
    /\ genPc = "call"
    /\ \E labelOrder \in mapOrders(genArgs.labels),
          volumeOrder \in mapOrders(genArgs.volumes),
          portOrder \in mapOrders(genArgs.exposedPorts) :
            genFile' = dfDataOf(genArgs, labelOrder, volumeOrder, portOrder)
    /\ genPc' = "ok"
    /\ UNCHANGED <<reducerVars, fixIn, fixOut, genArgs>>

\* ioutil.WriteFile fails and its error is returned
GenerateFails ==
    /\ genPc = "call"
    /\ genPc' = "error"
    /\ UNCHANGED <<reducerVars, fixIn, fixOut, genArgs, genFile>>

NextGen == GenerateFromInfo \/ GenerateFails

SpecGen == InitGen /\ [][NextGen]_vars

(***************************************************************************)
(* Properties of the reconstruction.                                       *)
(***************************************************************************)

\* the call has returned
returned == pc = "done"

\* the image at position k of the image stack
stackImage(k) == frames[out.ImageStack[k]]

\* the history entry the instruction at address a was built from: the loop
\* allocates the instructions oldest entry first
entryOf(a) == imageHistory[Len(imageHistory) - a + 1]

RECURSIVE SumSize(_)
SumSize(history) ==
    IF Len(history) = 0 THEN 0 ELSE history[1].Size + SumSize(Tail(history))

RECURSIVE SumNewSize(_)
SumNewSize(stack) ==
    IF Len(stack) = 0 THEN 0 ELSE frames[stack[1]].NewSize + SumNewSize(Tail(stack))

RECURSIVE ConcatInstructions(_)
ConcatInstructions(stack) ==
    IF Len(stack) = 0 THEN <<>>
    ELSE frames[stack[1]].Instructions \o ConcatInstructions(Tail(stack))

Range(q) == {q[k] : k \in 1..Len(q)}

\* C1: once the call has returned, the new sizes of the images of the image
\* stack add up to the sizes of the history entries, and every image that was
\* allocated (and so accumulated sizes) is in the image stack, once.
C1_SizesAccounted ==
    returned =>
        /\ SumNewSize(out.ImageStack) = SumSize(imageHistory)
        /\ Range(out.ImageStack) = 1..Len(frames)
        /\ Len(out.ImageStack) = Len(frames)

\* C1 witness: two images, the older made of two layers of size 3
C1_Witness ==
    /\ returned
    /\ Len(out.ImageStack) = 2
    /\ Len(stackImage(1).Instructions) = 2
    /\ stackImage(1).NewSize = 6
    /\ stackImage(2).NewSize = 3

\* C2: once the call has returned, the image stack is a chain: the first image
\* has an empty base image id, every later image has the id of the image before
\* it as its base, and an image's id is the id of the entry that closed it.
C2_StackIsChain ==
    returned =>
        \A k \in 1..Len(out.ImageStack) :
            /\ stackImage(k).BaseImageID =
                   IF k = 1 THEN "" ELSE stackImage(k - 1).ID
            /\ LET is == stackImage(k).Instructions
               IN  Len(is) > 0 /\ stackImage(k).ID = entryOf(is[Len(is)]).ID

\* C2 witness: three images with different ids, the middle one based on the first
C2_Witness ==
    /\ returned
    /\ Len(out.ImageStack) = 3
    /\ stackImage(1).ID = "sha256:a1"
    /\ stackImage(2).ID = missingID
    /\ stackImage(2).BaseImageID = "sha256:a1"
    /\ stackImage(3).BaseImageID = missingID

\* C3: once the call has returned there is one instruction per history entry,
\* all_instructions lists each of them once, in the order of the history read
\* from its last index down to 0, every instruction is in exactly one image,
\* and the images' instruction lists, concatenated in stack order, are
\* all_instructions.
C3_InstructionsPartitioned ==
    returned =>
        /\ Len(insts) = Len(imageHistory)
        /\ out.AllInstructions = [k \in 1..Len(imageHistory) |-> k]
        /\ ConcatInstructions(out.ImageStack) = out.AllInstructions
        /\ \A a \in 1..Len(insts) :
               Cardinality({k \in 1..Len(out.ImageStack) :
                               a \in Range(stackImage(k).Instructions)}) = 1
        /\ \A k \in 1..Len(out.AllInstructions) :
               LET info  == insts[out.AllInstructions[k]]
                   entry == imageHistory[Len(imageHistory) - k + 1]
               IN  /\ info.Size = entry.Size
                   /\ info.RawTags = entry.Tags
                   /\ info.Comment = entry.Comment
                   /\ info.LocalImageExists = (entry.ID # missingID)
                   /\ info.IsNop = Contains(entry.CreatedBy, "#(nop)")

\* C3 witness: three entries that differ in size and tags, in two images
C3_Witness ==
    /\ returned
    /\ Len(imageHistory) = 3
    /\ imageHistory[3].Size = 3 /\ imageHistory[2].Size = 0 /\ imageHistory[1].Size = 3
    /\ Len(imageHistory[3].Tags) = 0 /\ Len(imageHistory[2].Tags) = 1
    /\ Len(out.ImageStack) = 2
    /\ stackImage(1).Instructions = <<1, 2>>
    /\ stackImage(2).Instructions = <<3>>

\* C4: once the call has returned, the image stack is empty exactly when the
\* history is empty; when it is not, the last image of the stack is the one
\* closed by history entry 0 and it is the top image.
C4_TopImage ==
    returned =>
        /\ (Len(out.ImageStack) > 0) <=> (Len(imageHistory) > 0)
        /\ Len(out.ImageStack) > 0 =>
               LET top == stackImage(Len(out.ImageStack))
               IN  /\ top.IsTopImage
                   /\ Len(top.Instructions) > 0
                   /\ top.Instructions[Len(top.Instructions)] = Len(imageHistory)

\* C4 witness: a history whose newest entry has no tag, after a tagged one
C4_Witness ==
    /\ returned
    /\ Len(imageHistory) = 2
    /\ Len(imageHistory[1].Tags) = 0
    /\ Len(imageHistory[2].Tags) = 1
    /\ Len(out.ImageStack) = 2
    /\ stackImage(2).IsTopImage

RECURSIVE CountLines(_, _)
CountLines(lines, prefix) ==
    IF Len(lines) = 0 THEN 0
    ELSE (IF HasPrefix(lines[1], prefix) THEN 1 ELSE 0) + CountLines(Tail(lines), prefix)

\* C5: once the call has returned, in every image of the image stack exactly
\* the last instruction has is_last_instruction set, and that instruction's
\* intermediate_image_id is empty, whatever the ids of the entries are.
C5_LastInstructionFlagged ==
    returned =>
        \A k \in 1..Len(out.ImageStack) :
            LET is == stackImage(k).Instructions
            IN  \A j \in 1..Len(is) :
                    /\ insts[is[j]].IsLastInstruction = (j = Len(is))
                    /\ j = Len(is) => insts[is[j]].IntermediateImageID = ""

\* C6: the call never fails at run time, whatever the created_by texts are,
\* and returns one instruction per history entry.
C6_NeverAborts ==
    /\ pc # "panic"
    /\ returned => Len(out.AllInstructions) = Len(imageHistory)

\* C7: once the call has returned, the lines hold as many "# new image" lines
\* as "# end of image" lines, one of each per image of the image stack.
C7_FramesDelimited ==
    returned =>
        /\ CountLines(out.Lines, "# new image") = Len(out.ImageStack)
        /\ CountLines(out.Lines, "# end of image: ") = Len(out.ImageStack)

\* C8: the command_all of a #(nop) CMD or ENTRYPOINT instruction recovered in
\* exec form is the kind, a space and the compact JSON array of the operand's
\* tokens, with nothing after the closing bracket; CMD ["sh"] and
\* ENTRYPOINT ["/app","--flag"] for the two entries of the specification.
C8_ExecFormIsCompactJSON ==
    \A a \in 1..Len(insts) :
        LET info == insts[a]
        IN  /\ (info.IsNop /\ info.IsExecForm /\ info.Type \in {"CMD", "ENTRYPOINT"}) =>
                   /\ HasSuffix(info.CommandAll, "]")
                   /\ ~Contains(info.CommandAll, "\n")
            /\ entryOf(a).CreatedBy = "/bin/sh -c #(nop) CMD [\"sh\"]" =>
                   info.CommandAll = "CMD [\"sh\"]"
            /\ entryOf(a).CreatedBy = "/bin/sh -c #(nop)  ENTRYPOINT &{[\"/app\" \"--flag\"]}" =>
                   info.CommandAll = "ENTRYPOINT [\"/app\",\"--flag\"]"

\* C9: fixJSONArray applied to one of its own results returns that result.
C9_FixIdempotent ==
    (Len(fixOut) >= 2 /\ fixOut[1] # "panic") => fixOut[2] = fixOut[1]

\* the tokens left of a build-arg line |N a1 ... aN rest after the N
\* arguments; <<>> unless N is a count and the tail has more than N tokens
buildArgRest(rawLine) ==
    LET parts == SplitN2(rawLine, " ")
        n     == Atoi(From(parts[1], 1))
        tail  == shlexSplit(TrimSpace(parts[2]))
    IN  IF HasPrefix(rawLine, "|") /\ Len(parts) = 2 /\ ~n.err /\ n.val >= 0
           /\ ~tail.err /\ Len(tail.toks) > n.val
        THEN SubSeq(tail.toks, n.val + 1, Len(tail.toks))
        ELSE <<>>

\* C10: for a build-arg line with a valid count N and more than N tokens, the
\* instruction is a RUN; in shell form with the body and the tokens after it
\* joined by spaces when the tokens after the arguments start with /bin/sh -c
\* and a body, and in exec form with the JSON array of the tokens otherwise.
C10_BuildArgRun ==
    \A a \in 1..Len(insts) :
        LET info == insts[a]
            rest == buildArgRest(entryOf(a).CreatedBy)
        IN  Len(rest) > 0 =>
                IF Len(rest) >= 3 /\ rest[1] = "/bin/sh" /\ rest[2] = "-c"
                THEN /\ info.Type = "RUN"
                     /\ ~info.IsExecForm
                     /\ info.CommandAll = "RUN " \o Join(SubSeq(rest, 3, Len(rest)), " ")
                ELSE /\ info.Type = "RUN"
                     /\ info.IsExecForm
                     /\ info.CommandAll = "RUN " \o jsonArray(rest)

RECURSIVE trimAll(_)
trimAll(parts) ==
    IF Len(parts) = 0 THEN <<>> ELSE <<TrimSpace(parts[1])>> \o trimAll(Tail(parts))

\* C11: the instruction of a raw line that starts with "/bin/sh -c " and not
\* with "/bin/sh -c #(nop) " is a RUN in shell form, whatever follows the
\* prefix; when the operand holds "&&", command_all is RUN and the trimmed
\* segments joined by " && \", a newline and a tab, and system_commands is the
\* list of the trimmed segments.
C11_ShellFormRun ==
    \A a \in 1..Len(insts) :
        LET info    == insts[a]
            rawLine == entryOf(a).CreatedBy
            operand == From(rawLine, Len("/bin/sh -c "))
            segs    == trimAll(Split(operand, "&&"))
        IN  (HasPrefix(rawLine, "/bin/sh -c ") /\ ~HasPrefix(rawLine, "/bin/sh -c #(nop) ")) =>
                /\ info.Type = "RUN"
                /\ ~info.IsExecForm
                /\ Contains(operand, "&&") =>
                       /\ info.CommandAll = "RUN " \o Join(segs, " && \\\n\t")
                       /\ info.SystemCommands = segs

\* the trimmed operands of the USER instructions among the first n allocated
RECURSIVE userOperands(_)
userOperands(n) ==
    IF n = 0 THEN <<>>
    ELSE userOperands(n - 1)
         \o (IF insts[n].Type = "USER" THEN <<TrimSpace(insts[n].Params)>> ELSE <<>>)

\* C12: all_users lists the operands of the USER instructions in the order the
\* history is traversed (oldest first), and exe_user is the operand of the
\* last of them, or empty when there is none.
C12_Users ==
    LET users == userOperands(Len(insts))
    IN  /\ out.AllUsers = users
        /\ out.ExeUser = IF Len(users) = 0 THEN "" ELSE users[Len(users)]
        /\ \A a \in 1..Len(insts) :
               (insts[a].Type = "USER") <=>
                   /\ HasPrefix(entryOf(a).CreatedBy, "/bin/sh -c #(nop) ")
                   /\ HasPrefix(TrimSpace(From(entryOf(a).CreatedBy,
                                               Len("/bin/sh -c #(nop) "))), "USER ")

\* C12 witness: the oldest entry sets app, the newest sets root
C12_Witness ==
    /\ returned
    /\ Len(imageHistory) = 3
    /\ imageHistory[3].CreatedBy = "/bin/sh -c #(nop) USER app"
    /\ imageHistory[1].CreatedBy = "/bin/sh -c #(nop) USER root"
    /\ out.AllUsers = <<"app", "root">>
    /\ out.ExeUser = "root"

\* C13: for an ADD or COPY instruction whose operand reads
\* <src-type>:<name> in <dest> (a colon, and " in " after it), source_type is
\* <src-type>, target is <dest> and command_all is the kind, <src-type>:<name>
\* and <dest>; for any other operand command_all is the instruction as
\* classified.
C13_AddCopy ==
    \A a \in 1..Len(insts) :
        LET info       == insts[a]
            rawLine    == entryOf(a).CreatedBy
            classified == TrimSpace(From(rawLine, Len("/bin/sh -c #(nop) ")))
            params     == From(classified, Len(info.Type) + 1)
            colon      == Index(params, ":")
            afterColon == From(params, colon)
            in         == Index(afterColon, " in ")
            srcType    == SubSeq(params, 1, colon - 1)
            name       == SubSeq(afterColon, 1, in - 1)
            dest       == From(afterColon, in + 3)
        IN  info.Type \in {"ADD", "COPY"} =>
                /\ HasPrefix(rawLine, "/bin/sh -c #(nop) ")
                /\ HasPrefix(classified, info.Type \o " ")
                /\ IF colon > 0 /\ in > 0
                   THEN /\ info.SourceType = srcType
                        /\ info.Target = dest
                        /\ info.CommandAll =
                               info.Type \o " " \o srcType \o ":" \o name \o " " \o dest
                   ELSE /\ info.CommandAll = classified
                        /\ info.Target = ""

\* C13 witness: the ADD of the specification, and a COPY left as classified
C13_Witness ==
    \E a \in 1..Len(insts) :
        /\ entryOf(a).CreatedBy = "/bin/sh -c #(nop) ADD file:abc123 in /usr/bin/app "
        /\ insts[a].Type = "ADD"
        /\ insts[a].SourceType = "file"
        /\ insts[a].Target = "/usr/bin/app"
        /\ insts[a].CommandAll = "ADD file:abc123 /usr/bin/app"

\* the lines of a text that start with a prefix, in order
RECURSIVE linesWithPrefix(_, _)
linesWithPrefix(lines, prefix) ==
    IF Len(lines) = 0 THEN <<>>
    ELSE (IF HasPrefix(lines[1], prefix) THEN <<lines[1]>> ELSE <<>>)
         \o linesWithPrefix(Tail(lines), prefix)

\* ENV K "V" for the entries K=V, V everything after the first "="
RECURSIVE expectedEnvLines(_)
expectedEnvLines(env) ==
    IF Len(env) = 0 THEN <<>>
    ELSE LET eq == Index(env[1], "=")
         IN  (IF eq > 0
              THEN <<"ENV " \o SubSeq(env[1], 1, eq - 1) \o " \""
                     \o From(env[1], eq) \o "\"">>
              ELSE <<>>)
             \o expectedEnvLines(Tail(env))

\* C14: in the Dockerfile GenerateFromInfo writes, the ENV lines are, in input
\* order, one line ENV K "V" per env entry K=V, with K the text before the
\* first "=" and V all the text after it, and the group ends with one blank
\* line.
C14_EnvWholeValue ==
    genPc = "ok" =>
        LET expected == expectedEnvLines(genArgs.env)
        IN  /\ linesWithPrefix(Split(genFile, "\n"), "ENV ") = expected
            /\ Len(expected) > 0 =>
                   Contains(genFile, "\n" \o Join(expected, "\n") \o "\n\n")

\* a build-arg line without a usable count, with a tail that fails shell
\* splitting, or with no more tokens in the tail than the count
malformedBuildArg(rawLine) ==
    LET parts == SplitN2(rawLine, " ")
        n     == Atoi(From(parts[1], 1))
        tail  == shlexSplit(TrimSpace(parts[2]))
    IN  /\ HasPrefix(rawLine, "|")
        /\ ~(Len(parts) = 2 /\ ~n.err /\ n.val >= 0 /\ ~tail.err /\ Len(tail.toks) > n.val)

\* the operand of the default step: the JSON array of the whole line
\* shell-split, or the line itself when the split fails
defaultOperand(rawLine) ==
    LET whole == shlexSplit(rawLine)
    IN  IF whole.err THEN rawLine ELSE jsonArray(whole.toks)

\* C15: a malformed build-arg line always yields an instruction, and that
\* instruction is the one of the default step: a RUN in exec form whose
\* operand is the JSON array of the whole line shell-split, or the line
\* itself when that split fails.
C15_MalformedBuildArgDefaults ==
    /\ pc = "panic" => ~malformedBuildArg(imageHistory[idx + 1].CreatedBy)
    /\ \A a \in 1..Len(insts) :
           LET info    == insts[a]
               rawLine == entryOf(a).CreatedBy
           IN  malformedBuildArg(rawLine) =>
                   /\ info.Type = "RUN"
                   /\ info.IsExecForm
                   /\ info.CommandAll = "RUN " \o defaultOperand(rawLine)

\* the text of a raw line after the "/bin/sh -c #(nop) " prefix, trimmed
nopRemainder(rawLine) == TrimSpace(From(rawLine, Len("/bin/sh -c #(nop) ")))

\* the first space-delimited token of a text, and what follows its space
firstToken(text) ==
    IF Index(text, " ") > 0 THEN SubSeq(text, 1, Index(text, " ") - 1) ELSE text

afterFirstToken(text) ==
    IF Index(text, " ") > 0 THEN From(text, Index(text, " ")) ELSE ""

\* C16: the instruction of a raw line that starts with "/bin/sh -c #(nop) "
\* has the first token of the remainder as its kind, inside or outside the
\* instruction set and with or without an operand after it, and the rest of
\* the remainder as its operand (CMD and ENTRYPOINT operands are rewritten by
\* a later step).
C16_NopKindIsFirstToken ==
    \A a \in 1..Len(insts) :
        LET info      == insts[a]
            rawLine   == entryOf(a).CreatedBy
            remainder == nopRemainder(rawLine)
        IN  (HasPrefix(rawLine, "/bin/sh -c #(nop) ") /\ remainder # "") =>
                /\ info.Type = firstToken(remainder)
                /\ info.Type \notin {"CMD", "ENTRYPOINT"} =>
                       info.Params = afterFirstToken(remainder)

\* the operand the daemon prints as &{[a b c]} rewritten as [a b c]
daemonOperand(operand) == Replace(Replace(operand, "&{[", "["), "]}", "]")

shellWrapperPrefix == "[\"/bin/sh\" \"-c\" \""

\* C17: for an ENTRYPOINT or CMD line the operand is first rewritten from
\* &{[a b c]} to [a b c]; an operand that is then the /bin/sh -c wrapper
\* gives the shell form KIND body with is_exec_form false, any other operand
\* gives exec form with is_exec_form true, and a CMD gets the result an
\* ENTRYPOINT gets for the same operand.
C17_CmdLikeEntrypoint ==
    \A a \in 1..Len(insts) :
        LET info      == insts[a]
            rawLine   == entryOf(a).CreatedBy
            remainder == nopRemainder(rawLine)
            kind      == firstToken(remainder)
            rewritten == daemonOperand(afterFirstToken(remainder))
            asEntrypoint ==
                normalizeEntrypoint([panics |-> FALSE, isExecForm |-> FALSE,
                    cleanInst |-> "ENTRYPOINT " \o afterFirstToken(remainder)])
        IN  (/\ HasPrefix(rawLine, "/bin/sh -c #(nop) ")
             /\ kind \in {"CMD", "ENTRYPOINT"}
             /\ afterFirstToken(remainder) # "") =>
                /\ IF HasPrefix(rewritten, shellWrapperPrefix)
                   THEN /\ ~info.IsExecForm
                        /\ info.CommandAll = kind \o " "
                               \o TrimSuffix(TrimPrefix(rewritten, shellWrapperPrefix), "\"]")
                   ELSE info.IsExecForm
                /\ ~asEntrypoint.panics =>
                       /\ info.IsExecForm = asEntrypoint.isExecForm
                       /\ From(info.CommandAll, Len(kind))
                              = From(asEntrypoint.cleanInst, Len("ENTRYPOINT"))

\* the 0-based history index of the entry the instruction at address a was
\* built from
indexOf(a) == Len(imageHistory) - a

\* the position the instruction of history index i is to get
expectedPosition(i) ==
    IF i = 0 \/ imageHistory[i + 1].Tags # <<>> THEN "last"
    ELSE IF i = Len(imageHistory) - 1 THEN "first"
    ELSE "intermediate"

\* the addresses of the instructions at position last, oldest first
RECURSIVE lastAddresses(_)
lastAddresses(n) ==
    IF n = 0 THEN <<>>
    ELSE lastAddresses(n - 1) \o (IF insts[n].instPosition = "last" THEN <<n>> ELSE <<>>)

\* C18: the instruction of history index i is at position last iff i is 0 or
\* the entry is tagged, else first iff i is the index of the oldest entry,
\* else intermediate; the image stack gets one image per last instruction,
\* whose final instruction is its only last one, and the entry after a last
\* instruction starts the next image.
C18_Positions ==
    /\ \A a \in 1..Len(insts) :
           /\ insts[a].instPosition = expectedPosition(indexOf(a))
           /\ fatImageDockerInstructions[a].instPosition = expectedPosition(indexOf(a))
    /\ Len(out.ImageStack) = Len(lastAddresses(Len(insts)))
    /\ \A k \in 1..Len(out.ImageStack) :
           LET is == stackImage(k).Instructions
           IN  /\ Len(is) > 0
               /\ is[Len(is)] = lastAddresses(Len(insts))[k]
               /\ is[1] = IF k = 1 THEN 1 ELSE lastAddresses(Len(insts))[k - 1] + 1
               /\ \A j \in 1..Len(is) :
                      /\ (insts[is[j]].instPosition = "last") = (j = Len(is))
                      /\ j > 1 => is[j] = is[j - 1] + 1
    /\ startNewImage = (Len(insts) = 0 \/ insts[Len(insts)].instPosition = "last")

\* three untagged entries: first, intermediate and last in one image, and a
\* tagged oldest entry of three, last although it is the first one
C18_Witness ==
    /\ returned
    /\ Len(insts) = 3
    /\ \/ /\ insts[1].instPosition = "first"
          /\ insts[2].instPosition = "intermediate"
          /\ insts[3].instPosition = "last"
          /\ Len(out.ImageStack) = 1
       \/ /\ imageHistory[3].Tags # <<>>
          /\ insts[1].instPosition = "last"
          /\ Len(out.ImageStack) >= 2

\* the closer of the instruction built from an entry
closerOf(entry) ==
    "# end of image: " \o (IF Len(entry.Tags) > 0 THEN entry.Tags[1] ELSE "")
    \o " (id:  tags: " \o Join(entry.Tags, ",") \o ")"

\* the closers of the first n instructions, oldest first
RECURSIVE expectedClosers(_)
expectedClosers(n) ==
    IF n = 0 THEN <<>>
    ELSE expectedClosers(n - 1)
         \o (IF expectedPosition(indexOf(n)) = "last" THEN <<closerOf(entryOf(n))>> ELSE <<>>)

\* C19: an instruction at position last has an empty intermediate_image_id,
\* whatever the id of its entry is, and every "# end of image" line of the
\* returned lines has an empty id field.
C19_CloserHasNoID ==
    /\ \A a \in 1..Len(insts) :
           /\ insts[a].instPosition = "last" => insts[a].IntermediateImageID = ""
           /\ fatImageDockerInstructions[a].instPosition = "last" =>
                  fatImageDockerInstructions[a].IntermediateImageID = ""
    /\ returned =>
           linesWithPrefix(out.Lines, "# end of image: ") = expectedClosers(Len(insts))

\* a returned call whose newest entry has a real id and is closed by a line
\* with an empty id field
C19_Witness ==
    /\ returned
    /\ Len(imageHistory) > 0
    /\ imageHistory[1].ID = "sha256:a1"
    /\ imageHistory[1].Tags = <<"img:1">>
    /\ \E i \in 1..Len(out.Lines) :
           out.Lines[i] = "# end of image: img:1 (id:  tags: img:1)"
====
